---- MODULE Spec2Model ----
(***************************************************************************)
(* State-machine model of the releasing tool (cmd package): the manifest   *)
(* rewrite of prerelease, the prerelease workflow, the tag command and the *)
(* verify command.  Strings are sequences of one-character strings.        *)
(***************************************************************************)
EXTENDS Integers, Sequences, FiniteSets, TLC

VARIABLES
    \* ---- manifest rewrite (updateGoModVersions on one file) ----
    goMod,        \* current content of the go.mod file
    goMod0,       \* content before the first rewrite
    goMod1,       \* content after the first rewrite (<<>> before it)
    applied,      \* number of rewrites applied so far
    rwModPaths,   \* p.modPaths: the bumped module paths
    rwVersion,    \* p.newVersion
    \* ---- the repository (working tree, index, refs) ----
    tags,         \* Git tag namespace: full tag name -> commit
    branches,     \* branch name -> tip commit
    curBranch,    \* the checked-out branch
    commits,      \* commit objects: index = id, [parent, msg]
    unstaged,     \* the working tree differs from the index
    staged,       \* the index differs from HEAD
    manifests,    \* module path -> content of its go.mod
    \* ---- the running command ----
    runs,         \* invocations started so far
    cmd,          \* "none", "prerelease", "tag"
    pc,           \* position in the command's Run function
    exitCode,     \* the process's exit code once pc = "done"
    moduleSet,    \* flag: the module set name
    skipMake,     \* flag --skip-make
    deleteModuleSetTags,  \* flag --delete-module-set-tags
    commitHash,   \* flag --commit-hash ("" when not given)
    taggerCommit, \* tagger.commitHash (0 before newTagger)
    \* ---- history of the running invocation ----
    steps,        \* the workflow steps executed, in order
    opFailed,     \* file and external-process operations that failed
    repo0,        \* the repository when the invocation started
    added,        \* addedFullTags of tagAllModules when it returned
    lastTagAll,   \* the invocation before, when it was a successful tag-all
    \* ---- the verify command ----
    vModSetMap,   \* v.ModSetMap: set name -> [Version]
    vModInfoMap,  \* v.ModInfoMap: module path -> [ModuleSetName, Version]
    vModPathMap,  \* v.ModPathMap: module path -> path of its go.mod
    vModFiles,    \* the go.mod files of the stable modules as verifyDependencies finds them
    output        \* the diagnostics printed, in order

rwVars == <<goMod, goMod0, goMod1, applied, rwModPaths, rwVersion>>

repoVars == <<tags, branches, curBranch, commits, unstaged, staged, manifests>>

cmdVars == <<runs, cmd, pc, exitCode, moduleSet, skipMake, deleteModuleSetTags,
             commitHash, taggerCommit>>

histVars == <<steps, opFailed, repo0, added, lastTagAll>>

vfVars == <<vModSetMap, vModInfoMap, vModPathMap, vModFiles, output>>

vars == <<rwVars, repoVars, cmdVars, histVars, vfVars>>

(***************************************************************************)
(* Strings                                                                 *)
(***************************************************************************)
Digits == {"0", "1", "2", "3", "4", "5", "6", "7", "8", "9"}

NL == "\n"
TAB == "\t"
BSL == "\\"

\* strings.Replace(s, old, new, -1) for a one-character old
RECURSIVE StringsReplace(_, _, _)
StringsReplace(s, old, new) ==
    IF s = <<>> THEN <<>>
    ELSE (IF Head(s) = old THEN new ELSE <<Head(s)>>) \o StringsReplace(Tail(s), old, new)

\* the lines of a text (split at newlines)
RECURSIVE SplitLines(_, _)
SplitLines(s, cur) ==
    IF s = <<>> THEN <<cur>>
    ELSE IF Head(s) = NL THEN <<cur>> \o SplitLines(Tail(s), <<>>)
    ELSE SplitLines(Tail(s), Append(cur, Head(s)))

Lines(s) == SplitLines(s, <<>>)

RECURSIVE JoinLines(_)
JoinLines(ls) ==
    IF ls = <<>> THEN <<>>
    ELSE IF Len(ls) = 1 THEN ls[1]
    ELSE ls[1] \o <<NL>> \o JoinLines(Tail(ls))

IsPrefix(p, s) == Len(p) <= Len(s) /\ SubSeq(s, 1, Len(p)) = p

(***************************************************************************)
(* Regular expressions as used by updateGoModVersions: a compiled pattern  *)
(* is a sequence of atoms, each a literal, a digit class or the wildcard,  *)
(* possibly starred.                                                       *)
(***************************************************************************)
Atom(kind, c, star) == [kind |-> kind, c |-> c, star |-> star]

\* regexp.Compile on the pattern text: \x is the literal x, [0-9] the digit
\* class, . any character but newline, * stars the preceding atom
RECURSIVE RegexpCompile(_, _)
RegexpCompile(src, acc) ==
    IF src = <<>> THEN acc
    ELSE IF Head(src) = BSL /\ Len(src) >= 2
        THEN RegexpCompile(SubSeq(src, 3, Len(src)), Append(acc, Atom("lit", src[2], FALSE)))
    ELSE IF IsPrefix(<<"[", "0", "-", "9", "]">>, src)
        THEN RegexpCompile(SubSeq(src, 6, Len(src)), Append(acc, Atom("digit", "", FALSE)))
    ELSE IF Head(src) = "*" /\ acc # <<>>
        THEN RegexpCompile(Tail(src),
                 [acc EXCEPT ![Len(acc)] = Atom(acc[Len(acc)].kind, acc[Len(acc)].c, TRUE)])
    ELSE IF Head(src) = "."
        THEN RegexpCompile(Tail(src), Append(acc, Atom("any", "", FALSE)))
    ELSE RegexpCompile(Tail(src), Append(acc, Atom("lit", Head(src), FALSE)))

AtomMatches(a, ch) ==
    CASE a.kind = "lit" -> ch = a.c
      [] a.kind = "digit" -> ch \in Digits
      [] OTHER -> ch # NL

\* number of consecutive characters from position p on that atom a matches
RECURSIVE RunLen(_, _, _)
RunLen(a, s, p) ==
    IF p <= Len(s) /\ AtomMatches(a, s[p]) THEN 1 + RunLen(a, s, p + 1) ELSE 0

\* end of the preferred (greedy, leftmost-first) match of atoms k.. at
\* position p: the position after the match, or -1 when there is none
RECURSIVE MatchEnd(_, _, _, _)
RECURSIVE MatchStar(_, _, _, _, _)
MatchStar(re, k, s, p, n) ==
    LET e == MatchEnd(re, k + 1, s, p + n)
    IN  IF e # -1 THEN e
        ELSE IF n = 0 THEN -1
        ELSE MatchStar(re, k, s, p, n - 1)

MatchEnd(re, k, s, p) ==
    IF k > Len(re) THEN p
    ELSE IF re[k].star THEN MatchStar(re, k, s, p, RunLen(re[k], s, p))
    ELSE IF p <= Len(s) /\ AtomMatches(re[k], s[p]) THEN MatchEnd(re, k + 1, s, p + 1)
    ELSE -1

\* (*Regexp).ReplaceAll: every leftmost non-overlapping match is replaced
RECURSIVE ReplaceAllFrom(_, _, _, _)
ReplaceAllFrom(re, s, repl, p) ==
    IF p > Len(s) THEN <<>>
    ELSE LET e == MatchEnd(re, 1, s, p)
         IN  IF e # -1 /\ e > p
             THEN repl \o ReplaceAllFrom(re, s, repl, e)
             ELSE <<s[p]>> \o ReplaceAllFrom(re, s, repl, p + 1)

ReplaceAll(re, s, repl) == ReplaceAllFrom(re, s, repl, 1)

(***************************************************************************)
(* prerelease.go: the manifest rewrite                                     *)
(***************************************************************************)
filePathToRegex(fpath) ==
    LET replacedSlashes == StringsReplace(fpath, "/", <<BSL, "/">>)
        replacedPeriods == StringsReplace(replacedSlashes, ".", <<BSL, ".">>)
    IN  replacedPeriods

\* the literal ` v[0-9]*\.[0-9]*\.[0-9]` appended to the escaped path
OldVersionSuffix ==
    <<" ", "v", "[", "0", "-", "9", "]", "*", BSL, ".",
      "[", "0", "-", "9", "]", "*", BSL, ".", "[", "0", "-", "9", "]">>

oldVersionRegex(modPath) == filePathToRegex(modPath) \o OldVersionSuffix

newModVersionString(modPath, newVersion) == modPath \o <<" ">> \o newVersion

\* the loop of updateGoModVersions over p.modPaths, on the file's bytes
RECURSIVE ReplaceVersions(_, _, _)
ReplaceVersions(file, modPaths, newVersion) ==
    IF modPaths = <<>> THEN file
    ELSE ReplaceVersions(
             ReplaceAll(RegexpCompile(oldVersionRegex(Head(modPaths)), <<>>), file,
                        newModVersionString(Head(modPaths), newVersion)),
             Tail(modPaths), newVersion)

(***************************************************************************)
(* Inputs of the rewrite specification                                     *)
(***************************************************************************)
MaxLines == 2
MaxApply == 2

PathM   == <<"o", ".", "i", "/", "m">>                 \* o.i/m
PathMS  == <<"o", ".", "i", "/", "m", "/", "s">>       \* o.i/m/s
PathCM  == <<"c", "/", "o", ".", "i", "/", "m">>       \* c/o.i/m
PathXM  == <<"o", "x", "i", "/", "m">>                 \* oxi/m

V120    == <<"v", "1", ".", "2", ".", "0">>
V1210   == <<"v", "1", ".", "2", ".", "1", "0">>
V130    == <<"v", "1", ".", "3", ".", "0">>
V1310   == <<"v", "1", ".", "3", ".", "1", "0">>
V130rc  == <<"v", "1", ".", "3", ".", "0", "-", "r", "c">>

RwPaths == {PathM, PathMS, PathCM, PathXM}
RwOldVersions == {V120, V1210}
RwNewVersions == {V130, V1310, V130rc}
RwBumped == {<<PathM>>, <<PathMS>>, <<PathM, PathMS>>}

ModuleLine(p) == <<"m", "o", "d", "u", "l", "e", " ">> \o p
RequireLine(p, w) == <<TAB>> \o p \o <<" ">> \o w

RwLines == {ModuleLine(PathM)} \cup {RequireLine(p, w) : p \in RwPaths, w \in RwOldVersions}

RECURSIVE FilesOfLen(_)
FilesOfLen(n) ==
    IF n = 0 THEN {<<>>}
    ELSE {<<l>> \o f : l \in RwLines, f \in FilesOfLen(n - 1)}

RwFiles == UNION {{JoinLines(f) : f \in FilesOfLen(n)} : n \in 1..MaxLines}

(***************************************************************************)
(* The repository the commands run in: the versioning file, the modules on *)
(* disk and the Git history before the first invocation                    *)
(***************************************************************************)
MaxRuns == 2

Str_main == <<"m", "a", "i", "n">>
Str_side == <<"s", "i", "d", "e">>
Str_pre_release == <<"p", "r", "e", "_", "r", "e", "l", "e", "a", "s", "e">>
Str_Prepare == <<"P", "r", "e", "p", "a", "r", "e", " ", "f", "o", "r", " ",
                 "r", "e", "l", "e", "a", "s", "i", "n", "g", " ">>

SetS1 == <<"s", "1">>
SetS2 == <<"s", "2">>
SetNone == <<"s", "9">>

PathN == <<"o", ".", "i", "/", "n">>                   \* o.i/n
V010  == <<"v", "0", ".", "1", ".", "0">>
V020  == <<"v", "0", ".", "2", ".", "0">>

\* ModSetMap of the versioning file: set name -> version and member modules
ModSetMap ==
    (SetS1 :> [Version |-> V130, Modules |-> <<PathM, PathMS, PathXM>>]) @@
    (SetS2 :> [Version |-> V020, Modules |-> <<PathN>>])

\* the tag name of each module (its directory below the repository root)
ModTagName ==
    (PathM :> <<"m">>) @@ (PathMS :> <<"m", "/", "s">>) @@
    (PathXM :> <<"x">>) @@ (PathN :> <<"n">>)

\* ModPathMap keys: the modules that have a go.mod on disk
ModPathMapKeys == {PathM, PathMS, PathXM, PathN}

Manifests0 ==
    (PathM  :> JoinLines(<<ModuleLine(PathM), RequireLine(PathMS, V120), RequireLine(PathN, V010)>>)) @@
    (PathMS :> JoinLines(<<ModuleLine(PathMS), RequireLine(PathM, V120)>>)) @@
    (PathXM :> JoinLines(<<ModuleLine(PathXM), RequireLine(PathM, V120), RequireLine(PathMS, V1210)>>)) @@
    (PathN  :> JoinLines(<<ModuleLine(PathN), RequireLine(PathM, V120)>>))

Commits0 ==
    <<[parent |-> 0, msg |-> <<"i">>], [parent |-> 1, msg |-> <<"w">>],
      [parent |-> 1, msg |-> <<"s">>]>>

Branches0 == (Str_main :> 2) @@ (Str_side :> 3)

\* tools.VersionsAndModulesToUpdate: version, module paths and tag names of a set
RECURSIVE MapSeq(_, _)
MapSeq(f, sq) == IF sq = <<>> THEN <<>> ELSE <<f[Head(sq)]>> \o MapSeq(f, Tail(sq))

newVersionOf(set) == ModSetMap[set].Version
modPathsOf(set) == ModSetMap[set].Modules
modTagNamesOf(set) == MapSeq(ModTagName, ModSetMap[set].Modules)

\* tools.CombineModuleTagNamesAndVersion: <tag name>/<version> for every tag name
RECURSIVE CombineModuleTagNamesAndVersion(_, _)
CombineModuleTagNamesAndVersion(modTagNames, version) ==
    IF modTagNames = <<>> THEN <<>>
    ELSE <<Head(modTagNames) \o <<"/">> \o version>>
         \o CombineModuleTagNamesAndVersion(Tail(modTagNames), version)

modFullTagsOf(set) == CombineModuleTagNamesAndVersion(modTagNamesOf(set), newVersionOf(set))

Range(sq) == {sq[i] : i \in 1..Len(sq)}

AllFullTags == UNION {Range(modFullTagsOf(set)) : set \in DOMAIN ModSetMap}

HEAD == branches[curBranch]

RECURSIVE IsAncestor(_, _, _)
IsAncestor(cs, a, b) ==
    IF b = 0 THEN FALSE ELSE IF a = b THEN TRUE ELSE IsAncestor(cs, a, cs[b].parent)

Remove(f, x) == [y \in DOMAIN f \ {x} |-> f[y]]

(***************************************************************************)
(* Idle values of the variable groups a specification does not use         *)
(***************************************************************************)
RwIdle ==
    /\ goMod = <<>> /\ goMod0 = <<>> /\ goMod1 = <<>>
    /\ applied = 0 /\ rwModPaths = <<>> /\ rwVersion = <<>>

CmdIdle ==
    /\ runs = 0 /\ cmd = "none" /\ pc = "idle" /\ exitCode = 0
    /\ moduleSet = <<>> /\ skipMake = FALSE /\ deleteModuleSetTags = FALSE
    /\ commitHash = "" /\ taggerCommit = 0

Repo0(tg, un, st, br, mf, cs) ==
    [tags |-> tg, unstaged |-> un, staged |-> st, branches |-> br, manifests |-> mf,
     commits |-> cs]

\* no successful tag-all came right before this invocation
NoTagAll == [moduleSet |-> <<>>, tags |-> <<>>]

HistIdle ==
    /\ steps = <<>> /\ opFailed = {} /\ added = <<>> /\ lastTagAll = NoTagAll
    /\ repo0 = Repo0(tags, unstaged, staged, branches, manifests, commits)

EmptyMap == [x \in {} |-> 0]

VerifyIdle ==
    /\ vModSetMap = EmptyMap /\ vModInfoMap = EmptyMap /\ vModPathMap = EmptyMap
    /\ vModFiles = EmptyMap /\ output = <<>>

RepoIdle ==
    /\ tags = EmptyMap /\ branches = Branches0 /\ curBranch = Str_main
    /\ commits = Commits0 /\ unstaged = FALSE /\ staged = FALSE
    /\ manifests = Manifests0

(***************************************************************************)
(* Specification of the manifest rewrite as a function of its inputs       *)
(***************************************************************************)
InitRewrite ==
    /\ goMod0 \in RwFiles
    /\ goMod = goMod0
    /\ goMod1 = <<>>
    /\ applied = 0
    /\ rwModPaths \in RwBumped
    /\ rwVersion \in RwNewVersions
    /\ RepoIdle /\ CmdIdle /\ HistIdle /\ VerifyIdle

\* updateGoModVersions on the file: read, replace for every bumped path, write
updateGoModVersions ==
    /\ applied < MaxApply
    /\ goMod' = ReplaceVersions(goMod, rwModPaths, rwVersion)
    /\ goMod1' = IF applied = 0 THEN goMod' ELSE goMod1
    /\ applied' = applied + 1
    /\ UNCHANGED <<goMod0, rwModPaths, rwVersion, repoVars, cmdVars, histVars, vfVars>>

NextRewrite == updateGoModVersions

SpecRewrite == InitRewrite /\ [][NextRewrite]_vars

(***************************************************************************)
(* The prerelease command (prereleaseCmd.Run and the methods it calls)     *)
(***************************************************************************)
SetFlags == {SetS1, SetS2, SetNone}
CommitRefs == {"", "bad", "c1", "c2", "c3", "c4"}

Failure(step, op) == [step |-> step, op |-> op]

\* log.Fatalf (exit code 1), a panic (exit code 2) or the normal return
Exit(code) == pc' = "done" /\ exitCode' = code

\* a command starts without the maps and the output of a verify run before it
VerifyReset ==
    /\ vModSetMap' = EmptyMap /\ vModInfoMap' = EmptyMap /\ vModPathMap' = EmptyMap
    /\ vModFiles' = EmptyMap /\ output' = <<>>

Snapshot == Repo0(tags, unstaged, staged, branches, manifests, commits)

\* what the invocation that just ended leaves for the next one to compare
\* with: its module set and the tags at its start, when it was a tag-all that
\* succeeded
LastTagAll ==
    IF cmd = "tag" /\ pc = "done" /\ exitCode = 0 /\ "tagAll" \in Range(steps)
    THEN [moduleSet |-> moduleSet, tags |-> repo0.tags]
    ELSE NoTagAll

StartPrerelease ==
    /\ pc \in {"idle", "done"} /\ runs < MaxRuns
    /\ \E set \in SetFlags, sm \in BOOLEAN :
           /\ moduleSet' = set /\ skipMake' = sm
    /\ runs' = runs + 1 /\ cmd' = "prerelease" /\ pc' = "newPrerelease"
    /\ deleteModuleSetTags' = FALSE /\ commitHash' = "" /\ taggerCommit' = 0
    /\ exitCode' = 0
    /\ steps' = <<>> /\ opFailed' = {} /\ added' = <<>> /\ repo0' = Snapshot
    /\ lastTagAll' = LastTagAll
    /\ VerifyReset
    /\ UNCHANGED <<rwVars, repoVars>>

\* tools.ChangeToRepoRoot and newPrerelease: the set named by the flag must be
\* a set of the versioning file
newPrerelease ==
    /\ cmd = "prerelease" /\ pc = "newPrerelease"
    /\ steps' = Append(steps, "resolve")
    /\ \E ok \in BOOLEAN :
           IF ok /\ moduleSet \in DOMAIN ModSetMap
           THEN pc' = "verifyTags" /\ UNCHANGED <<exitCode, opFailed>>
           ELSE /\ Exit(1)
                /\ opFailed' = opFailed \cup
                       {Failure("resolve", IF ok THEN "no such set" ELSE "ChangeToRepoRoot")}
    /\ UNCHANGED <<rwVars, vfVars, repoVars, runs, cmd, moduleSet, skipMake,
                   deleteModuleSetTags, commitHash, taggerCommit, repo0, added,
                   lastTagAll>>

\* the pre-check looking for tags named <module path>/<version> instead of
\* <tag name>/<version>
TagAlreadyExistsByPath(set, tg) ==
    \E i \in 1..Len(modPathsOf(set)) :
        (modPathsOf(set)[i] \o <<"/">> \o newVersionOf(set)) \in DOMAIN tg

\* some full tag of the set already exists
TagAlreadyExists(set, tg) == \E i \in 1..Len(modFullTagsOf(set)) : modFullTagsOf(set)[i] \in DOMAIN tg

\* the pre-check that deletes the tags of the set it finds and goes on
verifyGitTagsDoNotAlreadyExistDelete ==
    /\ cmd = "prerelease" /\ pc = "verifyTags"
    /\ steps' = Append(steps, "tagcheck")
    /\ \E ok \in BOOLEAN :
           IF ok
           THEN /\ pc' = "verifyTree" /\ UNCHANGED <<exitCode, opFailed>>
                /\ tags' = [t \in DOMAIN tags \ Range(modFullTagsOf(moduleSet)) |-> tags[t]]
           ELSE /\ Exit(1)
                /\ opFailed' = opFailed \cup {Failure("tagcheck", "git tag -l")}
                /\ UNCHANGED tags
    /\ UNCHANGED <<rwVars, vfVars, branches, curBranch, commits, unstaged, staged, manifests,
                   runs, cmd, moduleSet, skipMake, deleteModuleSetTags, commitHash,
                   taggerCommit, repo0, added, lastTagAll>>

verifyGitTagsDoNotAlreadyExist ==
    /\ cmd = "prerelease" /\ pc = "verifyTags"
    /\ steps' = Append(steps, "tagcheck")
    /\ \E ok \in BOOLEAN :
           IF ok /\ ~TagAlreadyExists(moduleSet, tags)
           THEN pc' = "verifyTree" /\ UNCHANGED <<exitCode, opFailed>>
           ELSE /\ Exit(1)
                /\ opFailed' = opFailed \cup
                       {Failure("tagcheck", IF ok THEN "tag exists" ELSE "git tag -l")}
    /\ UNCHANGED <<rwVars, vfVars, repoVars, runs, cmd, moduleSet, skipMake,
                   deleteModuleSetTags, commitHash, taggerCommit, repo0, added,
                   lastTagAll>>

\* 'git diff --exit-code': the working tree against the index
GitDiffExitCode(un, st) == IF un THEN 1 ELSE 0

verifyWorkingTreeClean ==
    /\ cmd = "prerelease" /\ pc = "verifyTree"
    /\ steps' = Append(steps, "treecheck")
    /\ \E ok \in BOOLEAN :
           IF ok /\ GitDiffExitCode(unstaged, staged) = 0
           THEN pc' = "createBranch" /\ UNCHANGED <<exitCode, opFailed>>
           ELSE /\ Exit(1)
                /\ opFailed' = opFailed \cup
                       {Failure("treecheck", IF ok THEN "not clean" ELSE "git diff")}
    /\ UNCHANGED <<rwVars, vfVars, repoVars, runs, cmd, moduleSet, skipMake,
                   deleteModuleSetTags, commitHash, taggerCommit, repo0, added,
                   lastTagAll>>

branchNameOf(set) == Str_pre_release \o <<"_">> \o set \o <<"_">> \o newVersionOf(set)

\* createPrereleaseBranch with 'git checkout -B', which resets a branch that
\* exists instead of failing
createPrereleaseBranchReset ==
    /\ cmd = "prerelease" /\ pc = "createBranch"
    /\ steps' = Append(steps, "branch")
    /\ \E ok \in BOOLEAN :
           IF ok
           THEN /\ branches' = [b \in DOMAIN branches \cup {branchNameOf(moduleSet)} |->
                                   IF b = branchNameOf(moduleSet) THEN HEAD ELSE branches[b]]
                /\ curBranch' = branchNameOf(moduleSet)
                /\ pc' = "updateVersionGo"
                /\ UNCHANGED <<exitCode, opFailed>>
           ELSE /\ Exit(1)
                /\ opFailed' = opFailed \cup {Failure("branch", "git checkout -b")}
                /\ UNCHANGED <<branches, curBranch>>
    /\ UNCHANGED <<rwVars, vfVars, tags, commits, unstaged, staged, manifests, runs, cmd, moduleSet,
                   skipMake, deleteModuleSetTags, commitHash, taggerCommit, repo0, added,
                   lastTagAll>>

\* 'git checkout -b <branchName> <fromExistingBranch>', the base being the
\* branch checked out when the command started
createPrereleaseBranch ==
    /\ cmd = "prerelease" /\ pc = "createBranch"
    /\ steps' = Append(steps, "branch")
    /\ \E ok \in BOOLEAN :
           IF ok /\ branchNameOf(moduleSet) \notin DOMAIN branches
           THEN /\ branches' = [b \in DOMAIN branches \cup {branchNameOf(moduleSet)} |->
                                   IF b = branchNameOf(moduleSet) THEN HEAD ELSE branches[b]]
                /\ curBranch' = branchNameOf(moduleSet)
                /\ pc' = "updateVersionGo"
                /\ UNCHANGED <<exitCode, opFailed>>
           ELSE /\ Exit(1)
                /\ opFailed' = opFailed \cup
                       {Failure("branch", IF ok THEN "branch exists" ELSE "git checkout -b")}
                /\ UNCHANGED <<branches, curBranch>>
    /\ UNCHANGED <<rwVars, vfVars, tags, commits, unstaged, staged, manifests, runs, cmd, moduleSet,
                   skipMake, deleteModuleSetTags, commitHash, taggerCommit, repo0, added,
                   lastTagAll>>

updateVersionGo ==
    /\ cmd = "prerelease" /\ pc = "updateVersionGo"
    /\ pc' = "updateGoMod"
    /\ UNCHANGED <<rwVars, vfVars, repoVars, runs, cmd, exitCode, moduleSet, skipMake,
                   deleteModuleSetTags, commitHash, taggerCommit, histVars>>

\* updateAllGoModFiles: updateGoModVersions on every file of ModPathMap, in
\* the map's order.  Per file: "ok" (read, replaced, written), "wfail"
\* (ioutil.WriteFile failed: its error is dropped and the file keeps its
\* content), "skip" (not reached: ioutil.ReadFile failed on it or on a file
\* before it, and the panic ended the process).
updateAllGoModFiles ==
    /\ cmd = "prerelease" /\ pc = "updateGoMod"
    /\ steps' = Append(steps, "rewrite")
    /\ LET new == [m \in ModPathMapKeys |->
                      ReplaceVersions(manifests[m], modPathsOf(moduleSet), newVersionOf(moduleSet))]
       IN  \E out \in [ModPathMapKeys -> {"ok", "wfail", "skip"}] :
               LET panic == \E m \in ModPathMapKeys : out[m] = "skip"
                   wfail == \E m \in ModPathMapKeys : out[m] = "wfail"
               IN  /\ manifests' = [m \in ModPathMapKeys |->
                                       IF out[m] = "ok" THEN new[m] ELSE manifests[m]]
                   /\ unstaged' = (unstaged \/ manifests' # manifests)
                   /\ opFailed' = opFailed
                          \cup (IF wfail THEN {Failure("rewrite", "WriteFile")} ELSE {})
                          \cup (IF panic THEN {Failure("rewrite", "ReadFile")} ELSE {})
                   /\ IF panic THEN Exit(2)
                      ELSE /\ pc' = IF skipMake THEN "commit" ELSE "makeLint"
                           /\ UNCHANGED exitCode
    /\ UNCHANGED <<rwVars, vfVars, tags, branches, curBranch, commits, staged, runs, cmd, moduleSet,
                   skipMake, deleteModuleSetTags, commitHash, taggerCommit, repo0, added,
                   lastTagAll>>

\* runMakeLint that cleans up when 'make lint' fails: the manifests are put
\* back and the new branch is deleted
runMakeLintCleanup ==
    /\ cmd = "prerelease" /\ pc = "makeLint"
    /\ steps' = Append(steps, "lint")
    /\ \E ok \in BOOLEAN, touched \in BOOLEAN :
           IF ok
           THEN /\ unstaged' = (unstaged \/ touched)
                /\ pc' = "commit"
                /\ UNCHANGED <<exitCode, opFailed, manifests, branches, curBranch>>
           ELSE /\ Exit(1) /\ opFailed' = opFailed \cup {Failure("lint", "make lint")}
                /\ manifests' = repo0.manifests /\ unstaged' = repo0.unstaged
                /\ branches' = repo0.branches
                /\ curBranch' = CHOOSE b \in DOMAIN repo0.branches : repo0.branches[b] = HEAD
    /\ UNCHANGED <<rwVars, vfVars, tags, commits, staged, runs, cmd,
                   moduleSet, skipMake, deleteModuleSetTags, commitHash, taggerCommit,
                   repo0, added,
                   lastTagAll>>

\* 'make lint', which may update go.sum files
runMakeLint ==
    /\ cmd = "prerelease" /\ pc = "makeLint"
    /\ steps' = Append(steps, "lint")
    /\ \E ok \in BOOLEAN, touched \in BOOLEAN :
           /\ unstaged' = (unstaged \/ touched)
           /\ IF ok
              THEN pc' = "commit" /\ UNCHANGED <<exitCode, opFailed>>
              ELSE Exit(1) /\ opFailed' = opFailed \cup {Failure("lint", "make lint")}
    /\ UNCHANGED <<rwVars, vfVars, tags, branches, curBranch, commits, staged, manifests, runs, cmd,
                   moduleSet, skipMake, deleteModuleSetTags, commitHash, taggerCommit,
                   repo0, added,
                   lastTagAll>>

commitMessage(set) == Str_Prepare \o newVersionOf(set)

\* commitChanges that runs 'make ci' after 'git commit' instead of before it
commitChangesCommitFirst ==
    /\ cmd = "prerelease" /\ pc = "commit"
    /\ steps' = Append(steps, "commit")
    /\ \E addOk \in BOOLEAN, ciOk \in BOOLEAN, commitOk \in BOOLEAN, logOk \in BOOLEAN :
           LET stagedAfterAdd == staged \/ unstaged
           IN  IF ~addOk
               THEN /\ Exit(1)
                    /\ opFailed' = opFailed \cup {Failure("commit", "git add")}
                    /\ UNCHANGED <<unstaged, staged, commits, branches>>
               ELSE IF ~commitOk \/ ~stagedAfterAdd
               THEN /\ Exit(1)
                    /\ opFailed' = opFailed \cup {Failure("commit", "git commit")}
                    /\ unstaged' = FALSE /\ staged' = stagedAfterAdd
                    /\ UNCHANGED <<commits, branches>>
               ELSE /\ IF ~skipMake /\ ~ciOk
                       THEN /\ Exit(1)
                            /\ opFailed' = opFailed \cup {Failure("commit", "make ci")}
                       ELSE /\ Exit(0)
                            /\ opFailed' = opFailed \cup
                                   (IF logOk THEN {} ELSE {Failure("commit", "git log")})
                    /\ unstaged' = FALSE /\ staged' = FALSE
                    /\ commits' = Append(commits,
                                      [parent |-> HEAD, msg |-> commitMessage(moduleSet)])
                    /\ branches' = [branches EXCEPT ![curBranch] = Len(commits) + 1]
    /\ UNCHANGED <<rwVars, vfVars, tags, curBranch, manifests, runs, cmd, moduleSet, skipMake,
                   deleteModuleSetTags, commitHash, taggerCommit, repo0, added,
                   lastTagAll>>

\* commitChanges: 'git add .', 'make ci' unless skipped, 'git commit -m', and
\* 'git log -1' whose failure is only a warning
commitChanges ==
    /\ cmd = "prerelease" /\ pc = "commit"
    /\ steps' = Append(steps, "commit")
    /\ \E addOk \in BOOLEAN, ciOk \in BOOLEAN, commitOk \in BOOLEAN, logOk \in BOOLEAN :
           LET stagedAfterAdd == staged \/ unstaged
           IN  IF ~addOk
               THEN /\ Exit(1)
                    /\ opFailed' = opFailed \cup {Failure("commit", "git add")}
                    /\ UNCHANGED <<unstaged, staged, commits, branches>>
               ELSE IF ~skipMake /\ ~ciOk
               THEN /\ Exit(1)
                    /\ opFailed' = opFailed \cup {Failure("commit", "make ci")}
                    /\ unstaged' = FALSE /\ staged' = stagedAfterAdd
                    /\ UNCHANGED <<commits, branches>>
               ELSE IF ~commitOk \/ ~stagedAfterAdd
               THEN /\ Exit(1)
                    /\ opFailed' = opFailed \cup {Failure("commit", "git commit")}
                    /\ unstaged' = FALSE /\ staged' = stagedAfterAdd
                    /\ UNCHANGED <<commits, branches>>
               ELSE /\ Exit(0)
                    /\ opFailed' = opFailed \cup
                           (IF logOk THEN {} ELSE {Failure("commit", "git log")})
                    /\ unstaged' = FALSE /\ staged' = FALSE
                    /\ commits' = Append(commits,
                                      [parent |-> HEAD, msg |-> commitMessage(moduleSet)])
                    /\ branches' = [branches EXCEPT ![curBranch] = Len(commits) + 1]
    /\ UNCHANGED <<rwVars, vfVars, tags, curBranch, manifests, runs, cmd, moduleSet, skipMake,
                   deleteModuleSetTags, commitHash, taggerCommit, repo0, added,
                   lastTagAll>>

Prerelease ==
    \/ StartPrerelease
    \/ newPrerelease
    \/ verifyGitTagsDoNotAlreadyExist
    \/ verifyWorkingTreeClean
    \/ createPrereleaseBranch
    \/ updateVersionGo
    \/ updateAllGoModFiles
    \/ runMakeLint
    \/ commitChanges

(***************************************************************************)
(* The tag command (tagCmd.Run, newTagger, tagAllModules, deleteTags)      *)
(***************************************************************************)
RefTable == [c1 |-> 1, c2 |-> 2, c3 |-> 3, c4 |-> 4]

\* 'git rev-parse --quiet --verify <hash>': the commit's id, 0 when the
\* reference names no commit (the empty string never does)
RevParse(hash, cs) ==
    IF hash \in DOMAIN RefTable /\ RefTable[hash] <= Len(cs) THEN RefTable[hash] ELSE 0

\* 'git merge-base <SHA> HEAD' prints SHA exactly when SHA is HEAD or one of
\* its ancestors
MergeBaseIsSHA(cs, sha, head) == IsAncestor(cs, sha, head)

\* cobra checks the required flag --commit-hash after PreRun, which lifts the
\* requirement when --delete-module-set-tags is given
StartTag ==
    /\ pc \in {"idle", "done"} /\ runs < MaxRuns
    /\ \E set \in SetFlags, del \in BOOLEAN, h \in CommitRefs :
           /\ moduleSet' = set /\ deleteModuleSetTags' = del /\ commitHash' = h
           /\ IF ~del /\ h = ""
              THEN pc' = "done" /\ exitCode' = 1
              ELSE pc' = "newTagger" /\ exitCode' = 0
    /\ runs' = runs + 1 /\ cmd' = "tag"
    /\ skipMake' = FALSE /\ taggerCommit' = 0
    /\ steps' = <<>> /\ opFailed' = {} /\ added' = <<>> /\ repo0' = Snapshot
    /\ lastTagAll' = LastTagAll
    /\ VerifyReset
    /\ UNCHANGED <<rwVars, repoVars>>

\* getFullCommitHash without the comparison of 'git merge-base' with SHA
getFullCommitHashAnyCommit(hash, cs, head, ok) ==
    IF ~ok \/ RevParse(hash, cs) = 0 THEN 0 ELSE RevParse(hash, cs)

\* getFullCommitHash: the full hash, or 0 for an error
getFullCommitHash(hash, cs, head, ok) ==
    IF ~ok \/ RevParse(hash, cs) = 0 THEN 0
    ELSE IF ~MergeBaseIsSHA(cs, RevParse(hash, cs), head) THEN 0
    ELSE RevParse(hash, cs)

\* tools.ChangeToRepoRoot and newTagger: newPrerelease, then getFullCommitHash
\* on the flag's value, whatever the mode
newTagger ==
    /\ cmd = "tag" /\ pc = "newTagger"
    /\ steps' = Append(steps, "newTagger")
    /\ \E ok \in BOOLEAN, gitOk \in BOOLEAN :
           LET sha == getFullCommitHash(commitHash, commits, HEAD, gitOk)
           IN  IF ~ok \/ moduleSet \notin DOMAIN ModSetMap
               THEN /\ Exit(1)
                    /\ opFailed' = opFailed \cup
                           {Failure("newTagger", IF ok THEN "no such set" ELSE "ChangeToRepoRoot")}
                    /\ UNCHANGED taggerCommit
               ELSE IF sha = 0
               THEN /\ Exit(1)
                    /\ opFailed' = opFailed \cup {Failure("newTagger", "getFullCommitHash")}
                    /\ UNCHANGED taggerCommit
               ELSE /\ taggerCommit' = sha
                    /\ pc' = IF deleteModuleSetTags THEN "deleteTags" ELSE "tagAll"
                    /\ UNCHANGED <<exitCode, opFailed>>
    /\ UNCHANGED <<rwVars, vfVars, repoVars, runs, cmd, moduleSet, skipMake, deleteModuleSetTags,
                   commitHash, repo0, added,
                   lastTagAll>>

\* deleteTags that goes on to the next tag after a failed 'git tag -d' and
\* returns the error at the end
RECURSIVE deleteTagsKeepGoing(_, _, _)
deleteTagsKeepGoing(modFullTags, tg, failDelete) ==
    IF modFullTags = <<>> THEN [tags |-> tg, err |-> FALSE]
    ELSE IF Head(modFullTags) \notin DOMAIN tg \/ Head(modFullTags) \in failDelete
    THEN [tags |-> deleteTagsKeepGoing(Tail(modFullTags), tg, failDelete).tags, err |-> TRUE]
    ELSE deleteTagsKeepGoing(Tail(modFullTags), Remove(tg, Head(modFullTags)), failDelete)

\* deleteTags that drops the error of 'git tag -d' and goes on to the next tag
RECURSIVE deleteTagsIgnoreErrors(_, _, _)
deleteTagsIgnoreErrors(modFullTags, tg, failDelete) ==
    IF modFullTags = <<>> THEN [tags |-> tg, err |-> FALSE]
    ELSE IF Head(modFullTags) \notin DOMAIN tg \/ Head(modFullTags) \in failDelete
    THEN deleteTagsIgnoreErrors(Tail(modFullTags), tg, failDelete)
    ELSE deleteTagsIgnoreErrors(Tail(modFullTags), Remove(tg, Head(modFullTags)), failDelete)

\* deleteTags: 'git tag -d' for each tag in order, returning at the first
\* failure ('git tag -d' fails on a tag that does not exist, or for a reason
\* of its own: failDelete)
RECURSIVE deleteTags(_, _, _)
deleteTags(modFullTags, tg, failDelete) ==
    IF modFullTags = <<>> THEN [tags |-> tg, err |-> FALSE]
    ELSE IF Head(modFullTags) \notin DOMAIN tg \/ Head(modFullTags) \in failDelete
    THEN [tags |-> tg, err |-> TRUE]
    ELSE deleteTags(Tail(modFullTags), Remove(tg, Head(modFullTags)), failDelete)

\* the loop of tagAllModules that records a tag before creating it, so that
\* the tag whose creation failed is deleted with the others
RECURSIVE tagLoopRecordFirst(_, _, _, _, _, _, _)
tagLoopRecordFirst(modFullTags, i, tg, addedFullTags, commit, failCreate, failDelete) ==
    IF i > Len(modFullTags)
    THEN [tags |-> tg, err |-> FALSE, delErr |-> FALSE, added |-> addedFullTags]
    ELSE IF modFullTags[i] \in DOMAIN tg \/ modFullTags[i] \in failCreate
    THEN LET d == deleteTags(Append(addedFullTags, modFullTags[i]), tg, failDelete)
         IN  [tags |-> d.tags, err |-> TRUE, delErr |-> d.err,
              added |-> Append(addedFullTags, modFullTags[i])]
    ELSE tagLoopRecordFirst(modFullTags, i + 1,
             [t \in DOMAIN tg \cup {modFullTags[i]} |->
                 IF t = modFullTags[i] THEN commit ELSE tg[t]],
             Append(addedFullTags, modFullTags[i]), commit, failCreate, failDelete)

\* the loop of tagAllModules without the removal of the tags it added
RECURSIVE tagLoopNoRollback(_, _, _, _, _, _, _)
tagLoopNoRollback(modFullTags, i, tg, addedFullTags, commit, failCreate, failDelete) ==
    IF i > Len(modFullTags)
    THEN [tags |-> tg, err |-> FALSE, delErr |-> FALSE, added |-> addedFullTags]
    ELSE IF modFullTags[i] \in DOMAIN tg \/ modFullTags[i] \in failCreate
    THEN [tags |-> tg, err |-> TRUE, delErr |-> FALSE, added |-> addedFullTags]
    ELSE tagLoopNoRollback(modFullTags, i + 1,
             [t \in DOMAIN tg \cup {modFullTags[i]} |->
                 IF t = modFullTags[i] THEN commit ELSE tg[t]],
             Append(addedFullTags, modFullTags[i]), commit, failCreate, failDelete)

\* the loop of tagAllModules from index i: 'git tag -a <tag> -s -m ... <commit>'
\* fails when the tag exists or for a reason of its own (failCreate); on a
\* failure the tags added so far are deleted again
RECURSIVE tagLoop(_, _, _, _, _, _, _)
tagLoop(modFullTags, i, tg, addedFullTags, commit, failCreate, failDelete) ==
    IF i > Len(modFullTags)
    THEN [tags |-> tg, err |-> FALSE, delErr |-> FALSE, added |-> addedFullTags]
    ELSE IF modFullTags[i] \in DOMAIN tg \/ modFullTags[i] \in failCreate
    THEN LET d == deleteTags(addedFullTags, tg, failDelete)
         IN  [tags |-> d.tags, err |-> TRUE, delErr |-> d.err, added |-> addedFullTags]
    ELSE tagLoop(modFullTags, i + 1,
             [t \in DOMAIN tg \cup {modFullTags[i]} |->
                 IF t = modFullTags[i] THEN commit ELSE tg[t]],
             Append(addedFullTags, modFullTags[i]), commit, failCreate, failDelete)

tagAllModules ==
    /\ cmd = "tag" /\ pc = "tagAll"
    /\ steps' = Append(steps, "tagAll")
    /\ \E failCreate \in SUBSET Range(modFullTagsOf(moduleSet)),
          failDelete \in SUBSET Range(modFullTagsOf(moduleSet)) :
           LET r == tagLoop(modFullTagsOf(moduleSet), 1, tags, <<>>, taggerCommit,
                            failCreate, failDelete)
           IN  /\ tags' = r.tags
               /\ added' = r.added
               /\ opFailed' = opFailed
                      \cup (IF r.err THEN {Failure("tagAll", "git tag")} ELSE {})
                      \cup (IF r.delErr THEN {Failure("rollback", "git tag -d")} ELSE {})
               /\ Exit(IF r.err THEN 1 ELSE 0)
    /\ UNCHANGED <<rwVars, vfVars, branches, curBranch, commits, unstaged, staged, manifests, runs,
                   cmd, moduleSet, skipMake, deleteModuleSetTags, commitHash, taggerCommit,
                   repo0, lastTagAll>>

tagger_deleteModuleSetTags ==
    /\ cmd = "tag" /\ pc = "deleteTags"
    /\ steps' = Append(steps, "delete")
    /\ \E failDelete \in SUBSET Range(modFullTagsOf(moduleSet)) :
           LET d == deleteTags(modFullTagsOf(moduleSet), tags, failDelete)
           IN  /\ tags' = d.tags
               /\ opFailed' = opFailed
                      \cup (IF d.err THEN {Failure("delete", "git tag -d")} ELSE {})
               /\ Exit(IF d.err THEN 1 ELSE 0)
    /\ UNCHANGED <<rwVars, vfVars, branches, curBranch, commits, unstaged, staged, manifests, runs,
                   cmd, moduleSet, skipMake, deleteModuleSetTags, commitHash, taggerCommit,
                   repo0, added,
                   lastTagAll>>

Tag ==
    \/ StartTag
    \/ newTagger
    \/ tagAllModules
    \/ tagger_deleteModuleSetTags

(***************************************************************************)
(* Semantic versions (golang.org/x/mod/semver as verify.go uses it)        *)
(***************************************************************************)
Alpha == {"a", "b", "c", "d", "e", "f", "g", "h", "i", "j", "k", "l", "m", "n", "o", "p",
          "q", "r", "s", "t", "u", "v", "w", "x", "y", "z"}

IdentChars == Alpha \cup Digits \cup {"-"}

NumLen(s, p) == RunLen(Atom("digit", "", FALSE), s, p)

\* a number without a leading zero starts at position p
ValidNum(s, p) == LET n == NumLen(s, p) IN n >= 1 /\ (n = 1 \/ s[p] # "0")

RECURSIVE UpToChar(_, _)
UpToChar(s, ch) ==
    IF s = <<>> \/ Head(s) = ch THEN <<>> ELSE <<Head(s)>> \o UpToChar(Tail(s), ch)

\* dot-separated non-empty identifiers
ValidIdents(s) ==
    /\ s # <<>>
    /\ \A k \in 1..Len(s) : s[k] \in IdentChars \cup {"."}
    /\ s[1] # "." /\ s[Len(s)] # "."
    /\ \A k \in 1..(Len(s) - 1) : ~(s[k] = "." /\ s[k + 1] = ".")

BadVersion == [ok |-> FALSE, major |-> <<>>, prerelease |-> <<>>, build |-> <<>>]

GoodVersion(major, pre, build) ==
    [ok |-> TRUE, major |-> major, prerelease |-> pre, build |-> build]

semverSuffix(major, rest) ==
    IF rest = <<>> THEN GoodVersion(major, <<>>, <<>>)
    ELSE IF rest[1] = "-"
    THEN LET body == UpToChar(Tail(rest), "+")
             after == SubSeq(rest, Len(body) + 2, Len(rest))
         IN  IF ~ValidIdents(body) THEN BadVersion
             ELSE IF after = <<>> THEN GoodVersion(major, <<"-">> \o body, <<>>)
             ELSE IF ValidIdents(Tail(after)) THEN GoodVersion(major, <<"-">> \o body, after)
             ELSE BadVersion
    ELSE IF rest[1] = "+" /\ ValidIdents(Tail(rest)) THEN GoodVersion(major, <<>>, rest)
    ELSE BadVersion

\* vMAJOR[.MINOR[.PATCH[-PRERELEASE][+BUILD]]]
semverParse(v) ==
    IF Len(v) < 2 \/ v[1] # "v" \/ ~ValidNum(v, 2) THEN BadVersion
    ELSE LET p1 == 2 + NumLen(v, 2)
             major == SubSeq(v, 1, p1 - 1)
         IN  IF p1 > Len(v) THEN GoodVersion(major, <<>>, <<>>)
             ELSE IF v[p1] # "." \/ ~ValidNum(v, p1 + 1) THEN BadVersion
             ELSE LET p2 == p1 + 1 + NumLen(v, p1 + 1)
                  IN  IF p2 > Len(v) THEN GoodVersion(major, <<>>, <<>>)
                      ELSE IF v[p2] # "." \/ ~ValidNum(v, p2 + 1) THEN BadVersion
                      ELSE LET p3 == p2 + 1 + NumLen(v, p2 + 1)
                           IN  semverSuffix(major, SubSeq(v, p3, Len(v)))

semverIsValid(v) == semverParse(v).ok

\* semver.Major: "v" and the major number, "" for an invalid version
semverMajor(v) == semverParse(v).major

\* tools.IsStableVersion: major version at least 1 and no pre-release or
\* build-metadata suffix
IsStableVersion(v) ==
    LET p == semverParse(v)
    IN  p.ok /\ p.major # <<"v", "0">> /\ p.prerelease = <<>> /\ p.build = <<>>

(***************************************************************************)
(* The verify command (verifyCmd.Run and the three checks)                 *)
(***************************************************************************)
V200 == <<"v", "2", ".", "0", ".", "0">>
VBad == <<"1", ".", "3", ".", "0">>

VMods == {PathM, PathMS, PathN}
VSets == {SetS1, SetS2}
VVersions == {V130, V200, V010, V130rc, VBad}

Str_gomod == <<"/", "g", "o", ".", "m", "o", "d">>

Orders(S) ==
    {sq \in [1..Cardinality(S) -> S] : \A a, b \in 1..Cardinality(S) : sq[a] = sq[b] => a = b}

RECURSIVE SetToSeq(_)
SetToSeq(S) ==
    IF S = {} THEN <<>> ELSE LET x == CHOOSE y \in S : TRUE IN <<x>> \o SetToSeq(S \ {x})

\* a printed diagnostic
Diag(kind, check, mods, sets, versions) ==
    [kind |-> kind, check |-> check, mods |-> mods, sets |-> sets, versions |-> versions]

NoError == [err |-> FALSE, diag |-> Diag("pass", "", <<>>, <<>>, <<>>)]

\* 'if err != nil { log.Fatalf(...) }' that reports the error and goes on to
\* the next check
FatalIfKeepGoing(err, next) == pc' = next /\ exitCode' = (IF err THEN 1 ELSE exitCode)

\* 'if err = v.check(); err != nil { log.Fatalf(...) }' of verifyCmd.Run
FatalIf(err, next) == IF err THEN Exit(1) ELSE pc' = next /\ UNCHANGED exitCode

InitVerify ==
    /\ vModSetMap \in {[st \in VSets |-> [Version |-> f[st]]] : f \in [VSets -> VVersions]}
    /\ \E decl \in UNION {[D -> VSets] : D \in SUBSET VMods} :
           vModInfoMap = [m \in DOMAIN decl |->
                             [ModuleSetName |-> decl[m], Version |-> vModSetMap[decl[m]].Version]]
    /\ vModPathMap \in {[m \in D |-> m \o Str_gomod] : D \in SUBSET VMods}
    /\ vModFiles = EmptyMap /\ output = <<>>
    /\ runs = 1 /\ cmd = "verify" /\ pc = "newVerification" /\ exitCode = 0
    /\ moduleSet = <<>> /\ skipMake = FALSE /\ deleteModuleSetTags = FALSE
    /\ commitHash = "" /\ taggerCommit = 0
    /\ RepoIdle /\ RwIdle /\ HistIdle

\* tools.FindRepoRoot and newVerification
newVerification ==
    /\ cmd = "verify" /\ pc = "newVerification"
    /\ steps' = Append(steps, "load")
    /\ \E ok \in BOOLEAN :
           /\ FatalIf(~ok, "verifyAllModulesInSet")
           /\ opFailed' = opFailed \cup
                  (IF ok THEN {} ELSE {Failure("load", "NewModuleVersioningInfo")})
    /\ UNCHANGED <<rwVars, repoVars, vfVars, runs, cmd, moduleSet, skipMake,
                   deleteModuleSetTags, commitHash, taggerCommit, repo0, added,
                   lastTagAll>>

\* verifyAllModulesInSet with the first loop only: the declared modules are
\* not looked up on disk
verifyAllModulesInSetDiskOnly ==
    /\ cmd = "verify" /\ pc = "verifyAllModulesInSet"
    /\ steps' = Append(steps, "completeness")
    /\ LET notInSet == DOMAIN vModPathMap \ DOMAIN vModInfoMap
       IN  IF notInSet # {}
           THEN \E m \in notInSet :
                    /\ output' = Append(output,
                           Diag("error", "not in any set", <<m>>, <<>>, <<>>))
                    /\ opFailed' = opFailed \cup {Failure("completeness", "not in any set")}
                    /\ FatalIf(TRUE, "verifyVersions")
           ELSE /\ output' = Append(output, Diag("pass", "completeness", <<>>, <<>>, <<>>))
                /\ FatalIf(FALSE, "verifyVersions")
                /\ UNCHANGED opFailed
    /\ UNCHANGED <<rwVars, repoVars, vModSetMap, vModInfoMap, vModPathMap, vModFiles, runs,
                   cmd, moduleSet, skipMake, deleteModuleSetTags, commitHash, taggerCommit,
                   repo0, added,
                   lastTagAll>>

\* verifyAllModulesInSet: first the modules on disk that no set declares, then
\* the declared modules that are not on disk; the maps are ranged over in any
\* order and the first offender is returned
verifyAllModulesInSet ==
    /\ cmd = "verify" /\ pc = "verifyAllModulesInSet"
    /\ steps' = Append(steps, "completeness")
    /\ LET notInSet == DOMAIN vModPathMap \ DOMAIN vModInfoMap
           notOnDisk == DOMAIN vModInfoMap \ DOMAIN vModPathMap
       IN  IF notInSet # {}
           THEN \E m \in notInSet :
                    /\ output' = Append(output,
                           Diag("error", "not in any set", <<m>>, <<>>, <<>>))
                    /\ opFailed' = opFailed \cup {Failure("completeness", "not in any set")}
                    /\ FatalIf(TRUE, "verifyVersions")
           ELSE IF notOnDisk # {}
           THEN \E m \in notOnDisk :
                    /\ output' = Append(output,
                           Diag("error", "not on disk", <<m>>,
                                <<vModInfoMap[m].ModuleSetName>>, <<>>))
                    /\ opFailed' = opFailed \cup {Failure("completeness", "not on disk")}
                    /\ FatalIf(TRUE, "verifyVersions")
           ELSE /\ output' = Append(output, Diag("pass", "completeness", <<>>, <<>>, <<>>))
                /\ FatalIf(FALSE, "verifyVersions")
                /\ UNCHANGED opFailed
    /\ UNCHANGED <<rwVars, repoVars, vModSetMap, vModInfoMap, vModPathMap, vModFiles, runs,
                   cmd, moduleSet, skipMake, deleteModuleSetTags, commitHash, taggerCommit,
                   repo0, added,
                   lastTagAll>>

\* the loop of verifyVersions that records the major version of every set,
\* stable or not
RECURSIVE versionsLoopAnyVersion(_, _, _, _)
versionsLoopAnyVersion(setMap, order, i, setMajorVersions) ==
    IF i > Len(order) THEN NoError
    ELSE LET modSetName == order[i]
             version == setMap[modSetName].Version
             major == semverMajor(version)
         IN  IF ~semverIsValid(version)
             THEN [err |-> TRUE,
                   diag |-> Diag("error", "invalid version", <<>>, <<modSetName>>, <<version>>)]
             ELSE IF major \in DOMAIN setMajorVersions
             THEN [err |-> TRUE,
                   diag |-> Diag("error", "same major", <<>>,
                                 <<setMajorVersions[major], modSetName>>,
                                 <<setMap[setMajorVersions[major]].Version, version>>)]
             ELSE versionsLoopAnyVersion(setMap, order, i + 1,
                      [k \in DOMAIN setMajorVersions \cup {major} |->
                          IF k = major THEN modSetName ELSE setMajorVersions[k]])

\* the loop of verifyVersions over ModSetMap in the order given
RECURSIVE versionsLoop(_, _, _, _)
versionsLoop(setMap, order, i, setMajorVersions) ==
    IF i > Len(order) THEN NoError
    ELSE LET modSetName == order[i]
             version == setMap[modSetName].Version
             major == semverMajor(version)
         IN  IF ~semverIsValid(version)
             THEN [err |-> TRUE,
                   diag |-> Diag("error", "invalid version", <<>>, <<modSetName>>, <<version>>)]
             ELSE IF IsStableVersion(version)
             THEN IF major \in DOMAIN setMajorVersions
                  THEN [err |-> TRUE,
                        diag |-> Diag("error", "same major", <<>>,
                                      <<setMajorVersions[major], modSetName>>,
                                      <<setMap[setMajorVersions[major]].Version, version>>)]
                  ELSE versionsLoop(setMap, order, i + 1,
                           [k \in DOMAIN setMajorVersions \cup {major} |->
                               IF k = major THEN modSetName ELSE setMajorVersions[k]])
             ELSE versionsLoop(setMap, order, i + 1, setMajorVersions)

verifyVersions ==
    /\ cmd = "verify" /\ pc = "verifyVersions"
    /\ steps' = Append(steps, "versions")
    /\ \E order \in Orders(DOMAIN vModSetMap) :
           LET r == versionsLoop(vModSetMap, order, 1, EmptyMap)
           IN  /\ output' = Append(output,
                      IF r.err THEN r.diag ELSE Diag("pass", "versions", <<>>, <<>>, <<>>))
               /\ opFailed' = opFailed \cup
                      (IF r.err THEN {Failure("versions", r.diag.check)} ELSE {})
               /\ FatalIf(r.err, "verifyDependencies")
    /\ UNCHANGED <<rwVars, repoVars, vModSetMap, vModInfoMap, vModPathMap, vModFiles, runs,
                   cmd, moduleSet, skipMake, deleteModuleSetTags, commitHash, taggerCommit,
                   repo0, added,
                   lastTagAll>>

StableModules == {m \in DOMAIN vModInfoMap : IsStableVersion(vModInfoMap[m].Version)}

\* what ioutil.ReadFile and modfile.Parse can find for the go.mod of module m:
\* a file that cannot be read, one that cannot be parsed, or one that parses;
\* requires is what the file on disk declares
FileStates(m) ==
    {[state |-> "unparsable", requires |-> {}]}
    \cup {[state |-> st, requires |-> R] : st \in {"ok", "unreadable"}, R \in SUBSET (VMods \ {m})}

\* modFile.Require: ioutil.ReadFile returns no data for a file it cannot read,
\* and modfile.Parse finds no requirement in no data
ModFileRequire(file) == IF file.state = "ok" THEN file.requires ELSE {}

\* the inner loop of verifyDependencies over the requirements of modPath
RECURSIVE warningsFor(_, _, _)
warningsFor(modInfoMap, modPath, requireDeps) ==
    IF requireDeps = <<>> THEN <<>>
    ELSE (IF Head(requireDeps) \in DOMAIN modInfoMap
             /\ ~IsStableVersion(modInfoMap[Head(requireDeps)].Version)
          THEN <<Diag("warning", "unstable dependency", <<modPath, Head(requireDeps)>>, <<>>,
                      <<modInfoMap[modPath].Version, modInfoMap[Head(requireDeps)].Version>>)>>
          ELSE <<>>)
         \o warningsFor(modInfoMap, modPath, Tail(requireDeps))

UnreadableFile == [state |-> "unreadable", requires |-> {}]

\* the file verifyDependencies works on for modPath: a module that is not in
\* ModPathMap has the empty file path, which cannot be read
FileOf(modPathMap, files, modPath) ==
    IF modPath \in DOMAIN modPathMap THEN files[modPath] ELSE UnreadableFile

\* the loop of verifyDependencies that returns an error for an unstable
\* dependency of a stable module
RECURSIVE depsLoopStrict(_, _, _, _, _, _)
depsLoopStrict(modInfoMap, modPathMap, files, order, i, warnings) ==
    IF i > Len(order) THEN [err |-> warnings # <<>>, warnings |-> warnings]
    ELSE IF IsStableVersion(modInfoMap[order[i]].Version)
    THEN IF FileOf(modPathMap, files, order[i]).state = "unparsable"
         THEN [err |-> TRUE, warnings |-> warnings]
         ELSE depsLoopStrict(modInfoMap, modPathMap, files, order, i + 1,
                  warnings \o warningsFor(modInfoMap, order[i],
                      SetToSeq(ModFileRequire(FileOf(modPathMap, files, order[i])))))
    ELSE depsLoopStrict(modInfoMap, modPathMap, files, order, i + 1, warnings)

\* the loop of verifyDependencies over ModInfoMap in the order given: the
\* error of ReadFile is overwritten by that of modfile.Parse, which parses the
\* empty data of an unreadable file without error
RECURSIVE depsLoop(_, _, _, _, _, _)
depsLoop(modInfoMap, modPathMap, files, order, i, warnings) ==
    IF i > Len(order) THEN [err |-> FALSE, warnings |-> warnings]
    ELSE IF IsStableVersion(modInfoMap[order[i]].Version)
    THEN IF FileOf(modPathMap, files, order[i]).state = "unparsable"
         THEN [err |-> TRUE, warnings |-> warnings]
         ELSE depsLoop(modInfoMap, modPathMap, files, order, i + 1,
                  warnings \o warningsFor(modInfoMap, order[i],
                      SetToSeq(ModFileRequire(FileOf(modPathMap, files, order[i])))))
    ELSE depsLoop(modInfoMap, modPathMap, files, order, i + 1, warnings)

verifyDependencies ==
    /\ cmd = "verify" /\ pc = "verifyDependencies"
    /\ steps' = Append(steps, "dependencies")
    /\ \E files \in {f \in [StableModules \cap DOMAIN vModPathMap ->
                                  UNION {FileStates(m) : m \in VMods}] :
                        \A m \in DOMAIN f : f[m] \in FileStates(m)},
          order \in Orders(DOMAIN vModInfoMap) :
           LET r == depsLoop(vModInfoMap, vModPathMap, files, order, 1, <<>>)
           IN  /\ vModFiles' = files
               /\ output' = output \o r.warnings \o
                      (IF r.err THEN <<Diag("error", "parse", <<>>, <<>>, <<>>)>>
                       ELSE <<Diag("pass", "verify", <<>>, <<>>, <<>>)>>)
               /\ opFailed' = opFailed
                      \cup (IF r.err THEN {Failure("dependencies", "modfile.Parse")} ELSE {})
                      \cup (IF ~r.err /\ \E m \in StableModules :
                                   FileOf(vModPathMap, files, m).state = "unreadable"
                            THEN {Failure("dependencies", "ReadFile")} ELSE {})
               /\ FatalIf(r.err, "done")
    /\ UNCHANGED <<rwVars, repoVars, vModSetMap, vModInfoMap, vModPathMap, runs,
                   cmd, moduleSet, skipMake, deleteModuleSetTags, commitHash, taggerCommit,
                   repo0, added,
                   lastTagAll>>

NextVerify ==
    \/ newVerification
    \/ verifyAllModulesInSet
    \/ verifyVersions
    \/ verifyDependencies

SpecVerify == InitVerify /\ [][NextVerify]_vars

(***************************************************************************)
(* verify on a versioning file with three module sets of one module each,  *)
(* every module on disk                                                    *)
(***************************************************************************)
SetS3 == <<"s", "3">>

VSets3 == {SetS1, SetS2, SetS3}
VVersions3 == {V120, V130, V200, V010, V020, V130rc, VBad}

SetOfModule3 == (PathM :> SetS1) @@ (PathMS :> SetS2) @@ (PathN :> SetS3)

InitVersions ==
    /\ vModSetMap \in {[st \in VSets3 |-> [Version |-> f[st]]] : f \in [VSets3 -> VVersions3]}
    /\ vModInfoMap = [m \in VMods |->
                         [ModuleSetName |-> SetOfModule3[m],
                          Version |-> vModSetMap[SetOfModule3[m]].Version]]
    /\ vModPathMap = [m \in VMods |-> m \o Str_gomod]
    /\ vModFiles = EmptyMap /\ output = <<>>
    /\ runs = 1 /\ cmd = "verify" /\ pc = "newVerification" /\ exitCode = 0
    /\ moduleSet = <<>> /\ skipMake = FALSE /\ deleteModuleSetTags = FALSE
    /\ commitHash = "" /\ taggerCommit = 0
    /\ RepoIdle /\ RwIdle /\ HistIdle

SpecVersions == InitVersions /\ [][NextVerify]_vars

Init ==
    /\ tags \in UNION {[S -> {1}] : S \in SUBSET AllFullTags}
    /\ branches = Branches0 /\ curBranch = Str_main
    /\ commits = Commits0
    /\ unstaged \in BOOLEAN /\ staged \in BOOLEAN
    /\ manifests = Manifests0
    /\ RwIdle /\ CmdIdle /\ HistIdle /\ VerifyIdle

Next == Prerelease \/ Tag

Spec == Init /\ [][Next]_vars

(***************************************************************************)
(* The three commands on one repository: prerelease, tag and verify run    *)
(* one after the other, in any order, on a repository with no tags yet     *)
(***************************************************************************)
\* the versioning files verify is run with: two module sets of one module
\* each, the first stable with a valid or an invalid version, the second
\* unstable or in conflict with the first
CmdVersionings ==
    {(SetS1 :> [Version |-> a]) @@ (SetS2 :> [Version |-> b]) :
        a \in {V130, VBad}, b \in {V010, V130}}

CmdSetOfModule == (PathM :> SetS1) @@ (PathN :> SetS2)

\* the modules found on disk: the declared ones, one missing, one more
CmdDisks == {{PathM, PathN}, {PathM}, {PathM, PathN, PathMS}}

\* the verify command is invoked: no flag but the versioning file
StartVerify ==
    /\ pc \in {"idle", "done"} /\ runs < MaxRuns
    /\ runs' = runs + 1 /\ cmd' = "verify"
    /\ pc' = "newVerification" /\ exitCode' = 0
    /\ moduleSet' = <<>> /\ skipMake' = FALSE /\ deleteModuleSetTags' = FALSE
    /\ commitHash' = "" /\ taggerCommit' = 0
    /\ \E setMap \in CmdVersionings, disk \in CmdDisks :
           /\ vModSetMap' = setMap
           /\ vModInfoMap' = [m \in DOMAIN CmdSetOfModule |->
                                 [ModuleSetName |-> CmdSetOfModule[m],
                                  Version |-> setMap[CmdSetOfModule[m]].Version]]
           /\ vModPathMap' = [m \in disk |-> m \o Str_gomod]
    /\ vModFiles' = EmptyMap /\ output' = <<>>
    /\ steps' = <<>> /\ opFailed' = {} /\ added' = <<>> /\ repo0' = Snapshot
    /\ lastTagAll' = LastTagAll
    /\ UNCHANGED <<rwVars, repoVars>>

Verify == StartVerify \/ NextVerify

InitCommands ==
    /\ tags = EmptyMap
    /\ branches = Branches0 /\ curBranch = Str_main
    /\ commits = Commits0
    /\ unstaged \in BOOLEAN /\ staged \in BOOLEAN
    /\ manifests = Manifests0
    /\ RwIdle /\ CmdIdle /\ HistIdle /\ VerifyIdle

NextCommands == Prerelease \/ Tag \/ Verify

SpecCommands == InitCommands /\ [][NextCommands]_vars

(***************************************************************************)
(* Claims about the prerelease and tag commands (specification Spec)       *)
(***************************************************************************)
Last(sq) == sq[Len(sq)]

IndexOf(sq, x) == IF x \in Range(sq) THEN CHOOSE i \in 1..Len(sq) : sq[i] = x ELSE 0

\* the tags this invocation of tag-all created that still exist
Remaining == {t \in Range(added) : t \in DOMAIN tags}

TagAllFailed == cmd = "tag" /\ pc = "done" /\ Failure("tagAll", "git tag") \in opFailed

RollbackFailed == Failure("rollback", "git tag -d") \in opFailed

TargetTagExisted ==
    moduleSet \in DOMAIN ModSetMap /\ TagAlreadyExists(moduleSet, repo0.tags)

\* git's notion of a dirty tree: modifications not committed to the branch,
\* whether staged or not
Dirty0 == repo0.unstaged \/ repo0.staged

NothingMutated ==
    /\ DOMAIN branches = DOMAIN repo0.branches
    /\ manifests = repo0.manifests
    /\ commits = repo0.commits

\* C2: in a prerelease run the branch is created only after the tag pre-check
\* and then the clean-tree check have passed, in that order; if a target tag
\* exists or the tree is dirty no branch is created, no manifest rewritten and
\* no commit made; when both hold the run aborts at the tag pre-check.
C2_ChecksBeforeBranch ==
    cmd = "prerelease" =>
        /\ "branch" \in Range(steps) =>
               /\ 0 < IndexOf(steps, "tagcheck")
               /\ IndexOf(steps, "tagcheck") < IndexOf(steps, "treecheck")
               /\ IndexOf(steps, "treecheck") < IndexOf(steps, "branch")
        /\ (TargetTagExisted \/ Dirty0) => ("branch" \notin Range(steps) /\ NothingMutated)
        /\ (TargetTagExisted /\ Dirty0) => "treecheck" \notin Range(steps)

\* C6: in delete mode without a commit hash the tag command does not abort on
\* commit resolution: it builds the tagger and goes on to delete the tags.
C6_DeleteNeedsNoCommit ==
    (cmd = "tag" /\ deleteModuleSetTags /\ commitHash = "")
        => Failure("newTagger", "getFullCommitHash") \notin opFailed

FileAndProcessOps ==
    {"ChangeToRepoRoot", "git tag -l", "git diff", "git checkout -b", "ReadFile", "WriteFile",
     "make lint", "git add", "make ci", "git commit", "git log", "getFullCommitHash",
     "git tag", "git tag -d"}

\* C7: whenever a file or external-process operation of prerelease or tag
\* fails, the command terminates with a non-zero exit.
C7_EveryErrorFatal ==
    (pc = "done" /\ \E f \in opFailed : f.op \in FileAndProcessOps) => exitCode # 0

PrereleaseSteps(skip) ==
    IF skip THEN <<"resolve", "tagcheck", "treecheck", "branch", "rewrite", "commit">>
    ELSE <<"resolve", "tagcheck", "treecheck", "branch", "rewrite", "lint", "commit">>

\* C8: the prerelease steps run in the fixed order, each at most once, a step
\* runs only if every earlier step succeeded, and no step runs after the first
\* failing one.
C8_LinearFailFast ==
    cmd = "prerelease" =>
        /\ IsPrefix(steps, PrereleaseSteps(skipMake))
        /\ \A f \in opFailed : f.step = Last(steps)

\* C9: prerelease gets from the clean-tree check to branch creation only in a
\* repository with no uncommitted change, staged or unstaged.
C9_CleanTreeMeansNoUncommitted ==
    (cmd = "prerelease" /\ pc = "createBranch") => (~unstaged /\ ~staged)

\* the tags that exist now and did not when the invocation started
CreatedTags == DOMAIN tags \ DOMAIN repo0.tags

\* the commit reference of the running tag command names a commit that is
\* the tip of the current branch or one of its ancestors
RefReachable ==
    /\ RevParse(commitHash, commits) # 0
    /\ IsAncestor(commits, RevParse(commitHash, commits), HEAD)

\* C11: the tag command creates tags only at the commit its reference
\* resolves to, which is the current branch tip or an ancestor of it: with a
\* reference that does not resolve or is not reachable from HEAD the command
\* ends non-zero without having created a tag, and every tag a run created
\* points at the one resolved commit; tags that existed keep their commit.
C11_TagsOnlyAtReachableCommit ==
    cmd = "tag" =>
        /\ ~RefReachable => (CreatedTags = {} /\ "tagAll" \notin Range(steps)
                              /\ (pc = "done" => exitCode # 0))
        /\ CreatedTags # {} =>
               /\ RefReachable
               /\ taggerCommit = RevParse(commitHash, commits)
               /\ \A t \in CreatedTags : tags[t] = taggerCommit
        /\ \A t \in DOMAIN tags \cap DOMAIN repo0.tags : tags[t] = repo0.tags[t]

\* tag-all tagged a commit that is a proper ancestor of the branch tip
C11_Witness ==
    /\ cmd = "tag" /\ pc = "done" /\ exitCode = 0 /\ ~deleteModuleSetTags
    /\ Cardinality(CreatedTags) = 3
    /\ taggerCommit # HEAD /\ \A t \in CreatedTags : tags[t] = taggerCommit

(***************************************************************************)
(* Claims about the verify command (specification SpecVerify)              *)
(***************************************************************************)
VerifySteps == <<"load", "completeness", "versions", "dependencies">>

\* the configuration passes the set-completeness check
KeysEqual == DOMAIN vModInfoMap = DOMAIN vModPathMap

\* the configuration passes the version-validity check
VersionsOK ==
    /\ \A st \in DOMAIN vModSetMap : semverIsValid(vModSetMap[st].Version)
    /\ \A a, b \in DOMAIN vModSetMap :
           (/\ a # b
            /\ IsStableVersion(vModSetMap[a].Version)
            /\ IsStableVersion(vModSetMap[b].Version))
               => semverMajor(vModSetMap[a].Version) # semverMajor(vModSetMap[b].Version)

VerifyDone == cmd = "verify" /\ pc = "done"

CompletenessDiag == output[1]

NotInAnySet == DOMAIN vModPathMap \ DOMAIN vModInfoMap

NotOnDisk == DOMAIN vModInfoMap \ DOMAIN vModPathMap

\* C12: the set-completeness check passes exactly when ModInfoMap and
\* ModPathMap have the same keys; otherwise verify ends non-zero at this check
\* and its diagnostic names one module of the symmetric difference: a module
\* on disk that no set declares as 'not contained in any module set', a
\* declared module that is not on disk together with the name of its set.
C12_CompletenessIffKeysEqual ==
    (cmd = "verify" /\ "completeness" \in Range(steps)) =>
        /\ CompletenessDiag.kind = "pass" <=> KeysEqual
        /\ KeysEqual => Failure("completeness", CompletenessDiag.check) \notin opFailed
        /\ ~KeysEqual =>
               /\ pc = "done" /\ exitCode # 0 /\ Last(steps) = "completeness"
               /\ CompletenessDiag.kind = "error" /\ Len(CompletenessDiag.mods) = 1
               /\ \/ /\ CompletenessDiag.check = "not in any set"
                     /\ CompletenessDiag.mods[1] \in NotInAnySet
                  \/ /\ CompletenessDiag.check = "not on disk"
                     /\ CompletenessDiag.mods[1] \in NotOnDisk
                     /\ CompletenessDiag.sets =
                            <<vModInfoMap[CompletenessDiag.mods[1]].ModuleSetName>>

\* every module on disk is declared, one declared module is not on disk, and
\* the check failed naming it and its set
C12_Witness ==
    /\ VerifyDone /\ steps = <<"load", "completeness">> /\ exitCode = 1
    /\ NotInAnySet = {} /\ NotOnDisk # {}
    /\ CompletenessDiag.check = "not on disk" /\ CompletenessDiag.mods[1] \in NotOnDisk

UnparsableStableManifest ==
    \E m \in StableModules \cap DOMAIN vModFiles : vModFiles[m].state = "unparsable"

\* C10 (as stated): when the first two checks pass, verify exits zero whatever
\* the dependency check meets (unstable dependencies, unreadable or unparsable
\* manifests).
C10_DependencyCheckNeverFails ==
    (VerifyDone /\ "dependencies" \in Range(steps)) => exitCode = 0

\* C10 (amended): when the first two checks pass, verify exits zero whatever
\* unstable dependencies and unreadable manifests the dependency check meets,
\* and exits non-zero exactly when the manifest of a module of a stable set
\* cannot be parsed.
C10_WarningsAreAdvisory ==
    (VerifyDone /\ "dependencies" \in Range(steps)) =>
        (exitCode # 0 <=> UnparsableStableManifest)

\* verify passed although the dependency check warned of an unstable
\* dependency and met an unreadable manifest
C10_Witness ==
    /\ VerifyDone /\ "dependencies" \in Range(steps) /\ exitCode = 0
    /\ \E k \in 1..Len(output) : output[k].kind = "warning"
    /\ \E m \in DOMAIN vModFiles : vModFiles[m].state = "unreadable"

DependenciesRan == cmd = "verify" /\ "dependencies" \in Range(steps)

\* the pairs (M, D): M a module of a stable set, D a requirement of M's
\* manifest that is a key of ModInfoMap with an unstable version
UnstablePairs ==
    {p \in (DOMAIN vModFiles) \X (DOMAIN vModInfoMap) :
        /\ p[1] \in StableModules
        /\ p[2] \in vModFiles[p[1]].requires
        /\ ~IsStableVersion(vModInfoMap[p[2]].Version)}

\* the positions of the warnings printed for the pair p
WarningsFor(p) == {k \in 1..Len(output) : output[k].kind = "warning" /\ output[k].mods = p}

\* every warning printed is for a pair of UnstablePairs and gives the two
\* versions
WarningsSound ==
    \A k \in 1..Len(output) :
        output[k].kind = "warning" =>
            /\ output[k].mods \in UnstablePairs
            /\ output[k].versions = <<vModInfoMap[output[k].mods[1]].Version,
                                      vModInfoMap[output[k].mods[2]].Version>>

\* C17: the dependency check prints exactly one warning for each
\* pair (M, D) with M a module of a stable set, D a direct requirement of M's
\* manifest, D tracked and of unstable version, and no warning for any other
\* pair (none for a transitive dependency, none for a module of an unstable
\* set).
C17_OneWarningPerPair ==
    DependenciesRan =>
        /\ WarningsSound
        /\ \A p \in UnstablePairs : Cardinality(WarningsFor(p)) = 1

(***************************************************************************)
(* Claims about the version check of verify (specification SpecVersions)   *)
(***************************************************************************)
\* the diagnostic of the version check (the line after that of the
\* completeness check)
VersionsDiag == output[2]

AllVersionsValid == \A st \in DOMAIN vModSetMap : semverIsValid(vModSetMap[st].Version)

\* sets a and b are distinct, both stable, and have the same major version
Conflicting(a, b) ==
    /\ a # b
    /\ IsStableVersion(vModSetMap[a].Version) /\ IsStableVersion(vModSetMap[b].Version)
    /\ semverMajor(vModSetMap[a].Version) = semverMajor(vModSetMap[b].Version)

StableConflict == \E a, b \in DOMAIN vModSetMap : Conflicting(a, b)

\* the diagnostic is the same-major error for two conflicting sets, with the
\* version of each
NamesConflict(d) ==
    /\ d.kind = "error" /\ d.check = "same major"
    /\ Len(d.sets) = 2 /\ d.sets[1] \in DOMAIN vModSetMap /\ d.sets[2] \in DOMAIN vModSetMap
    /\ Conflicting(d.sets[1], d.sets[2])
    /\ d.versions = <<vModSetMap[d.sets[1]].Version, vModSetMap[d.sets[2]].Version>>

VersionsRan == cmd = "verify" /\ "versions" \in Range(steps)

\* C13 (as stated): whenever two distinct sets have stable versions with the
\* same major version, verifyVersions fails with the error that names both
\* conflicting sets and their versions, whatever the order of visit; unstable
\* sets never take part in a conflict, and a configuration of valid versions
\* whose shared majors are among unstable sets only passes.
C13_ConflictAlwaysNamed ==
    VersionsRan =>
        /\ StableConflict => (pc = "done" /\ exitCode # 0 /\ NamesConflict(VersionsDiag))
        /\ VersionsDiag.check = "same major" => NamesConflict(VersionsDiag)
        /\ (AllVersionsValid /\ ~StableConflict) => VersionsDiag.kind = "pass"

\* C13 (amended): whenever two distinct sets have stable versions with the
\* same major version, verify ends non-zero at verifyVersions whatever the
\* order of visit; the error names two conflicting sets and their versions
\* when every version is valid, and otherwise is either that error or the
\* invalid-version error for a set whose version is invalid.  Unstable sets
\* never take part in a conflict, and a configuration of valid versions whose
\* shared majors are among unstable sets only passes.
C13_ConflictFailsVerify ==
    VersionsRan =>
        /\ StableConflict =>
               /\ pc = "done" /\ exitCode # 0 /\ Last(steps) = "versions"
               /\ \/ NamesConflict(VersionsDiag)
                  \/ /\ ~AllVersionsValid
                     /\ VersionsDiag.check = "invalid version"
        /\ (StableConflict /\ AllVersionsValid) => NamesConflict(VersionsDiag)
        /\ VersionsDiag.check = "same major" => NamesConflict(VersionsDiag)
        /\ VersionsDiag.check = "invalid version" =>
               ~semverIsValid(vModSetMap[VersionsDiag.sets[1]].Version)
        /\ (AllVersionsValid /\ ~StableConflict) => VersionsDiag.kind = "pass"

\* two stable sets share a major version, the third set is unstable and
\* shares its major version with no stable set, and the conflict is reported
C13_Witness ==
    /\ VersionsRan /\ pc = "done" /\ exitCode = 1
    /\ StableConflict /\ AllVersionsValid /\ NamesConflict(VersionsDiag)
    /\ \E st \in DOMAIN vModSetMap : ~IsStableVersion(vModSetMap[st].Version)

(***************************************************************************)
(* Claims about the manifest rewrite (specification SpecRewrite)           *)
(***************************************************************************)
\* the module path a requirement line names: the text between the leading
\* tab and the first space
RECURSIVE UpToSpace(_)
UpToSpace(s) ==
    IF s = <<>> \/ Head(s) = " " THEN <<>> ELSE <<Head(s)>> \o UpToSpace(Tail(s))

RequiredPath(line) ==
    IF line # <<>> /\ Head(line) = TAB THEN UpToSpace(Tail(line)) ELSE <<>>

IsBumpedRequirement(line) ==
    \E i \in 1..Len(rwModPaths) :
        /\ RequiredPath(line) = rwModPaths[i]
        /\ IsPrefix(<<TAB>> \o rwModPaths[i] \o <<" ", "v">>, line)

\* C4: applying updateGoModVersions twice to a file gives exactly the content
\* that applying it once gives, for every manifest, bumped-path list and new
\* version (multi-digit patch numbers and pre-release suffixes included).
C4_RewriteIdempotent == applied = 2 => goMod = goMod1

\* C5: the rewrite changes only lines '<bumped path> v<old version>' whose path
\* is exactly one of the bumped paths; every other line is byte-for-byte the
\* same before and after, and a file without such a line is unchanged.
C5_OnlyBumpedLinesChange ==
    applied >= 1 =>
        /\ Len(Lines(goMod1)) = Len(Lines(goMod0))
        /\ \A i \in 1..Len(Lines(goMod0)) :
               ~IsBumpedRequirement(Lines(goMod0)[i]) => Lines(goMod1)[i] = Lines(goMod0)[i]

(***************************************************************************)
(* Claims about the result of a prerelease run (specification Spec)        *)
(***************************************************************************)
PrereleaseSucceeded == cmd = "prerelease" /\ pc = "done" /\ exitCode = 0

\* line i of module m's manifest, when the invocation started and now
LineBefore(m, i) == Lines(repo0.manifests[m])[i]

LineNow(m, i) == Lines(manifests[m])[i]

\* the line is a requirement on a member of the target set
RequiresTarget(line) == RequiredPath(line) \in Range(modPathsOf(moduleSet))

\* the tip of the pre-release branch of the target set
PrereleaseTip == branches[branchNameOf(moduleSet)]

\* the pre-release branch of the target set exists, checked out, with exactly
\* one commit more than a branch that existed when the invocation started
OneNewCommitOnBase ==
    /\ branchNameOf(moduleSet) \in DOMAIN branches
    /\ branchNameOf(moduleSet) \notin DOMAIN repo0.branches
    /\ Len(commits) = Len(repo0.commits) + 1 /\ PrereleaseTip = Len(commits)
    /\ commits[PrereleaseTip].msg = commitMessage(moduleSet)
    /\ \E b \in DOMAIN repo0.branches : commits[PrereleaseTip].parent = repo0.branches[b]
    /\ \A b \in DOMAIN repo0.branches : branches[b] = repo0.branches[b]

\* C14: after a prerelease run that ended successfully for a set with new
\* version V, every requirement on a member of the set that a manifest of
\* ModPathMap declared before the run is now declared at exactly V, and the
\* branch pre_release_<set>_<V> exists with exactly one new commit on top of
\* its base branch.
C14_SuccessfulRunBumpsAll ==
    PrereleaseSucceeded =>
        /\ \A m \in ModPathMapKeys :
               /\ Len(Lines(manifests[m])) = Len(Lines(repo0.manifests[m]))
               /\ \A i \in 1..Len(Lines(repo0.manifests[m])) :
                      RequiresTarget(LineBefore(m, i)) =>
                          LineNow(m, i) = RequireLine(RequiredPath(LineBefore(m, i)),
                                                      newVersionOf(moduleSet))
        /\ OneNewCommitOnBase

\* the run failed at the lint step or at the commit step
FailedAfterRewrite ==
    /\ cmd = "prerelease" /\ pc = "done" /\ exitCode # 0
    /\ steps # <<>> /\ Last(steps) \in {"lint", "commit"}

\* the new branch exists and is checked out, nothing was committed, and what
\* the rewrite changed is in the working tree or the index
LeftInPlace ==
    /\ branchNameOf(moduleSet) \in DOMAIN branches
    /\ curBranch = branchNameOf(moduleSet)
    /\ commits = repo0.commits
    /\ manifests # repo0.manifests => (unstaged \/ staged)

\* one step of a running prerelease keeps every branch and every manifest
\* that differs from its content at the start of the run
NoUndoStep ==
    (cmd = "prerelease" /\ cmd' = "prerelease" /\ runs' = runs) =>
        /\ DOMAIN branches \subseteq DOMAIN branches'
        /\ \A m \in DOMAIN manifests :
               manifests[m] # repo0.manifests[m] => manifests'[m] = manifests[m]

\* C15: prerelease never undoes its earlier steps: when the lint step or the
\* commit step fails, the new branch exists and is checked out and the
\* rewritten manifests are still modified and uncommitted; no step of
\* prerelease deletes a branch or puts a manifest back.
C15_NoUndo == [](FailedAfterRewrite => LeftInPlace) /\ [][NoUndoStep]_vars

\* 'make lint' failed after the rewrite changed manifests: the branch is
\* checked out and the changes are in the working tree
C15_Witness ==
    /\ FailedAfterRewrite /\ Last(steps) = "lint" /\ LeftInPlace
    /\ manifests # repo0.manifests /\ unstaged

\* the run made a commit
CommitMade == Len(commits) > Len(repo0.commits)

MakeCiFailed == Failure("commit", "make ci") \in opFailed

\* 'git add', 'make ci' or 'git commit' failed in the commit step
CommitStepFailed ==
    \E op \in {"git add", "make ci", "git commit"} : Failure("commit", op) \in opFailed

\* C16: without --skip-make, 'make ci' runs after 'git add' and before 'git
\* commit' and the commit is made only if it succeeded: when it fails the
\* changes are staged, the run ends non-zero and has made no commit; a commit
\* a run makes has the message 'Prepare for releasing <version>' and, without
\* --skip-make, comes after a lint step that ran and succeeded.  With
\* --skip-make neither 'make lint' nor 'make ci' runs, and the commit is made
\* whenever 'git add' and 'git commit' succeed.
C16_CommitOnlyAfterMakeCi ==
    cmd = "prerelease" =>
        /\ MakeCiFailed =>
               /\ ~skipMake /\ ~CommitMade /\ pc = "done" /\ exitCode # 0
               /\ Failure("commit", "git add") \notin opFailed
               /\ ~unstaged /\ (manifests # repo0.manifests => staged)
        /\ CommitMade =>
               /\ Len(commits) = Len(repo0.commits) + 1
               /\ Last(commits).msg = commitMessage(moduleSet)
               /\ ~CommitStepFailed
               /\ ~skipMake => ("lint" \in Range(steps)
                                 /\ Failure("lint", "make lint") \notin opFailed)
        /\ skipMake =>
               /\ "lint" \notin Range(steps)
               /\ \A f \in opFailed : f.op \notin {"make lint", "make ci"}
        /\ (pc = "done" /\ "commit" \in Range(steps) /\ ~CommitStepFailed)
               => (CommitMade /\ exitCode = 0)

\* without --skip-make, lint passed and 'make ci' failed on the staged
\* changes: no commit was made
C16_Witness ==
    /\ cmd = "prerelease" /\ pc = "done" /\ exitCode = 1 /\ ~skipMake
    /\ MakeCiFailed /\ "lint" \in Range(steps) /\ staged /\ ~unstaged /\ ~CommitMade

\* a prerelease run for a set whose pre-release branch existed when the run
\* started (an earlier run created it) and none of whose tags existed
SecondRunSameSet ==
    /\ cmd = "prerelease" /\ moduleSet \in DOMAIN ModSetMap
    /\ branchNameOf(moduleSet) \in DOMAIN repo0.branches
    /\ ~TagAlreadyExists(moduleSet, repo0.tags)

\* an external command of the steps before branch creation failed to run
ChecksBroken ==
    \E f \in opFailed : f.op \in {"ChangeToRepoRoot", "git tag -l", "git diff"}

\* 'git checkout -b' failed
BranchCreationFailed == \E f \in opFailed : f.step = "branch"

\* C18 (as stated): a prerelease run for a set whose branch
\* pre_release_<set>_<version> an earlier run created, with none of the set's
\* tags created since, aborts at the branch-creation step (when the commands
\* of the earlier steps run), without rewriting a manifest or making a commit.
C18_SecondRunAbortsAtBranch ==
    SecondRunSameSet =>
        /\ NothingMutated /\ "rewrite" \notin Range(steps)
        /\ (pc = "done" /\ ~ChecksBroken) =>
               (exitCode # 0 /\ Last(steps) = "branch" /\ BranchCreationFailed)

\* C18 (amended): such a run never gets past the branch-creation step and
\* rewrites no manifest and makes no commit: branch creation fails whenever
\* the run reaches it, which it does when the earlier run left the tree clean
\* (it committed); when the run aborts before, it is at the clean-tree check
\* on the uncommitted changes the earlier run left.
C18_SecondRunAbortsByBranch ==
    SecondRunSameSet =>
        /\ NothingMutated /\ "rewrite" \notin Range(steps)
        /\ "branch" \in Range(steps) => (pc = "done" /\ exitCode # 0 /\ BranchCreationFailed)
        /\ (pc = "done" /\ ~ChecksBroken) =>
               /\ exitCode # 0
               /\ Last(steps) \in {"treecheck", "branch"}
               /\ ~Dirty0 => Last(steps) = "branch"
               /\ Last(steps) = "treecheck" =>
                      (Dirty0 /\ Failure("treecheck", "not clean") \in opFailed)

\* the second run for the same set found the tree clean and failed to create
\* the branch that the first run had committed to
C18_Witness ==
    /\ SecondRunSameSet /\ pc = "done" /\ exitCode = 1
    /\ Last(steps) = "branch" /\ Failure("branch", "branch exists") \in opFailed
    /\ NothingMutated /\ Last(commits).msg = commitMessage(moduleSet)

(***************************************************************************)
(* Claims about the deletion of tags (specification Spec)                  *)
(***************************************************************************)
\* the delete step of the tag command ran
DeleteRan == cmd = "tag" /\ "delete" \in Range(steps)

\* the positions of the set's full tags that the delete step did not delete:
\* the tag did not exist when the command started, or it still exists
NotDeleted ==
    {i \in 1..Len(modFullTagsOf(moduleSet)) :
        \/ modFullTagsOf(moduleSet)[i] \notin DOMAIN repo0.tags
        \/ modFullTagsOf(moduleSet)[i] \in DOMAIN tags}

FirstNotDeleted == CHOOSE k \in NotDeleted : \A i \in NotDeleted : k <= i

\* C19: delete mode runs 'git tag -d' on the set's full tags in order, with
\* no check beforehand that they exist, and stops at the first deletion that
\* fails: the tags before it are deleted, that tag and the tags after it are
\* as they were, and the command ends non-zero; it ends with zero exactly when
\* every tag of the set existed and was deleted.  No other tag is touched.
C19_DeleteStopsAtFirstFailure ==
    DeleteRan =>
        /\ pc = "done"
        /\ exitCode = 0 <=> NotDeleted = {}
        /\ exitCode # 0 <=> Failure("delete", "git tag -d") \in opFailed
        /\ NotDeleted # {} =>
               \A i \in FirstNotDeleted..Len(modFullTagsOf(moduleSet)) :
                   modFullTagsOf(moduleSet)[i] \in DOMAIN tags
                       <=> modFullTagsOf(moduleSet)[i] \in DOMAIN repo0.tags
        /\ \A t \in DOMAIN tags : t \in DOMAIN repo0.tags /\ tags[t] = repo0.tags[t]
        /\ \A t \in DOMAIN repo0.tags \ Range(modFullTagsOf(moduleSet)) : t \in DOMAIN tags

\* the first tag was deleted although the second did not exist, the deletion
\* stopped there, and the third tag is still in place
C19_Witness ==
    /\ DeleteRan /\ pc = "done" /\ exitCode = 1 /\ Len(modFullTagsOf(moduleSet)) = 3
    /\ modFullTagsOf(moduleSet)[1] \in DOMAIN repo0.tags \ DOMAIN tags
    /\ modFullTagsOf(moduleSet)[2] \notin DOMAIN repo0.tags
    /\ modFullTagsOf(moduleSet)[3] \in DOMAIN tags

\* the tag-all step of the tag command ran
TagAllRan == cmd = "tag" /\ "tagAll" \in Range(steps)

\* C20: tag-all never deletes or moves a tag that existed before the
\* invocation: the tags it records as created did not exist before, every tag
\* that is new is one of them, and after a failed tag-all whose rollback
\* succeeded the tag namespace is exactly the one before the invocation.
C20_RollbackOnlyOwnTags ==
    TagAllRan =>
        /\ \A t \in DOMAIN repo0.tags : t \in DOMAIN tags /\ tags[t] = repo0.tags[t]
        /\ Range(added) \cap DOMAIN repo0.tags = {}
        /\ CreatedTags \subseteq Range(added)
        /\ (TagAllFailed /\ ~RollbackFailed) => tags = repo0.tags

\* tag-all created the first tag, failed on the second, which existed, and
\* rolled back: the existing tags are all in place and the first is gone
C20_Witness ==
    /\ TagAllRan /\ TagAllFailed /\ ~RollbackFailed /\ Len(added) = 1
    /\ modFullTagsOf(moduleSet)[2] \in DOMAIN repo0.tags
    /\ tags = repo0.tags

(***************************************************************************)
(* Claims about the commands together (specification Spec)                 *)
(***************************************************************************)
\* tag-all ended successfully
TagAllSucceeded == TagAllRan /\ pc = "done" /\ exitCode = 0

\* every full tag of the set existed when the invocation started
AllTargetTagsExisted ==
    /\ moduleSet \in DOMAIN ModSetMap
    /\ Range(modFullTagsOf(moduleSet)) \subseteq DOMAIN repo0.tags

\* C21: the tag pre-check of prerelease looks for the full tag names that
\* tag-all creates: when tag-all has succeeded for a set every full tag of
\* the set exists, and a prerelease run for a set whose full tags exist
\* aborts at the tag pre-check, before the clean-tree check and without
\* touching a branch, a manifest or a commit.
C21_TaggedSetStopsPrerelease ==
    /\ TagAllSucceeded => Range(modFullTagsOf(moduleSet)) \subseteq DOMAIN tags
    /\ (cmd = "prerelease" /\ AllTargetTagsExisted) =>
           /\ IsPrefix(steps, <<"resolve", "tagcheck">>)
           /\ NothingMutated /\ curBranch \in DOMAIN repo0.branches
           /\ "tagcheck" \in Range(steps) =>
                  (pc = "done" /\ exitCode # 0 /\ \E f \in opFailed : f.step = "tagcheck")
           /\ pc = "done" => exitCode # 0

\* a prerelease run for s1 aborted at the tag pre-check on the tags that an
\* earlier tag-all had put on the tip of the branch
C21_Witness ==
    /\ cmd = "prerelease" /\ runs = 2 /\ moduleSet = SetS1 /\ AllTargetTagsExisted
    /\ \A t \in Range(modFullTagsOf(SetS1)) : repo0.tags[t] = 2
    /\ pc = "done" /\ exitCode = 1 /\ steps = <<"resolve", "tagcheck">>
    /\ Failure("tagcheck", "tag exists") \in opFailed

\* the invocation is a successful delete-mode run that came right after a
\* successful tag-all of the same module set
DeletedAfterTagAll ==
    /\ DeleteRan /\ pc = "done" /\ exitCode = 0
    /\ lastTagAll # NoTagAll /\ lastTagAll.moduleSet = moduleSet

\* C22: tag-all followed by delete mode is a round trip. When a successful
\* tag-all of a module set, started from tags that held none of the set's
\* tags, is followed by a successful delete-mode run of the same set, the tags
\* are again the ones tag-all started from: the delete-mode run found the
\* starting tags plus the set's tags, all at one commit, and removed exactly
\* the set's tags.
C22_TagAllThenDeleteRoundTrip ==
    (/\ DeletedAfterTagAll
     /\ Range(modFullTagsOf(moduleSet)) \cap DOMAIN lastTagAll.tags = {}) =>
        /\ tags = lastTagAll.tags
        /\ DOMAIN repo0.tags = DOMAIN lastTagAll.tags \cup Range(modFullTagsOf(moduleSet))
        /\ \A t \in DOMAIN lastTagAll.tags : repo0.tags[t] = lastTagAll.tags[t]
        /\ DOMAIN repo0.tags \ DOMAIN tags = Range(modFullTagsOf(moduleSet))

\* a round trip of the first module set over a repository that holds the
\* tags of the second one: three tags created, the same three deleted
C22_Witness ==
    /\ DeletedAfterTagAll /\ moduleSet = SetS1 /\ runs = 2
    /\ DOMAIN lastTagAll.tags = Range(modFullTagsOf(SetS2))
    /\ DOMAIN repo0.tags = Range(modFullTagsOf(SetS1)) \cup Range(modFullTagsOf(SetS2))
    /\ \A t \in Range(modFullTagsOf(SetS1)) : repo0.tags[t] # 1
    /\ tags = lastTagAll.tags
    /\ steps = <<"newTagger", "delete">>

(***************************************************************************)
(* Claims about the three commands (specification SpecCommands)            *)
(***************************************************************************)
\* what a step of each command leaves alone
FrameStep ==
    /\ cmd' = "prerelease" => tags' = tags
    /\ cmd' = "tag" => UNCHANGED <<branches, manifests, commits>>
    /\ cmd' = "verify" => UNCHANGED <<branches, manifests, commits, tags>>

\* C23: the three commands touch disjoint parts of the repository. No step of
\* a prerelease run creates or deletes a tag; no step of a tag run (tag-all,
\* its rollback, delete mode) creates a branch, rewrites a manifest or makes
\* a commit; no step of a verify run changes a branch, a manifest, a commit
\* or a tag. This holds of every step, of failing runs too.
C23_CommandsKeepToTheirPart == [][FrameStep]_vars

\* a verify run that failed in verifyDependencies, after a prerelease run
\* that created its branch, rewrote a manifest and committed
C23_Witness ==
    /\ cmd = "verify" /\ pc = "done" /\ exitCode = 1 /\ runs = 2
    /\ Failure("dependencies", "modfile.Parse") \in opFailed
    /\ DOMAIN branches # DOMAIN Branches0
    /\ manifests # Manifests0
    /\ commits # Commits0
    /\ manifests = repo0.manifests /\ commits = repo0.commits
    /\ branches = repo0.branches /\ tags = repo0.tags

====
